---- MODULE Spec2Model ----
(***************************************************************************)
(* Model of plugins/removelink/__init__.py: the STRM / subtitle cleanup    *)
(* plugin.  A deletion event on a watched pointer root is classified,      *)
(* mapped through the path-mapping table to a target on a storage backend, *)
(* matched against one listing of the target directory, and the matches    *)
(* are deleted.                                                            *)
(*                                                                         *)
(* Python strings are sequences of one-character strings, so that prefix,  *)
(* split, strip and suffix operations are computed the way the code does.  *)
(***************************************************************************)
EXTENDS Integers, Sequences, FiniteSets, TLC

\* ------------------------------------------------------------------ strings

\* characters str.strip() removes (the whitespace the inputs use)
Whitespace == {" ", "\t", "\r"}

\* str.lower() on one character
LowerChar(c) ==
  CASE c = "S" -> "s"
    [] c = "T" -> "t"
    [] c = "R" -> "r"
    [] c = "M" -> "m"
    [] c = "K" -> "k"
    [] c = "V" -> "v"
    [] c = "P" -> "p"
    [] c = "A" -> "a"
    [] OTHER -> c

\* str.lower()
Lower(s) == [i \in 1..Len(s) |-> LowerChar(s[i])]

\* str.startswith(p)
StartsWith(s, p) == Len(p) <= Len(s) /\ SubSeq(s, 1, Len(p)) = p

\* str.endswith(p)
EndsWith(s, p) == Len(p) <= Len(s) /\ SubSeq(s, Len(s) - Len(p) + 1, Len(s)) = p

\* `sub in s`
Contains(s, sub) == \E i \in 1..(Len(s) - Len(sub) + 1) : SubSeq(s, i, i + Len(sub) - 1) = sub

RECURSIVE LStripChars(_, _)
\* str.lstrip(chars)
LStripChars(s, chars) ==
  IF s # <<>> /\ Head(s) \in chars THEN LStripChars(Tail(s), chars) ELSE s

RECURSIVE RStripChars(_, _)
\* str.rstrip(chars)
RStripChars(s, chars) ==
  IF s # <<>> /\ s[Len(s)] \in chars THEN RStripChars(SubSeq(s, 1, Len(s) - 1), chars) ELSE s

\* str.strip(): newline cannot occur inside a line that came out of split("\n")
Strip(s) == RStripChars(LStripChars(s, Whitespace \cup {"\n"}), Whitespace \cup {"\n"})

\* index of the first occurrence of character c in s, 0 when there is none
FindChar(s, c) ==
  IF \E i \in 1..Len(s) : s[i] = c
  THEN CHOOSE i \in 1..Len(s) : s[i] = c /\ \A j \in 1..(i - 1) : s[j] # c
  ELSE 0

\* index of the last occurrence of character c in s, 0 when there is none
RFindChar(s, c) ==
  IF \E i \in 1..Len(s) : s[i] = c
  THEN CHOOSE i \in 1..Len(s) : s[i] = c /\ \A j \in (i + 1)..Len(s) : s[j] # c
  ELSE 0

RECURSIVE SplitMax(_, _, _)
\* str.split(sep, maxsplit) for a one-character separator; maxsplit < 0 is unlimited
SplitMax(s, sep, maxsplit) ==
  LET i == FindChar(s, sep) IN
    IF maxsplit = 0 \/ i = 0
    THEN << s >>
    ELSE << SubSeq(s, 1, i - 1) >> \o SplitMax(SubSeq(s, i + 1, Len(s)), sep, maxsplit - 1)

\* str.split(sep)
Split(s, sep) == SplitMax(s, sep, -1)

RECURSIVE Join(_, _)
\* sep.join(parts)
Join(parts, sep) ==
  IF parts = <<>> THEN <<>>
  ELSE IF Len(parts) = 1 THEN parts[1]
  ELSE parts[1] \o sep \o Join(Tail(parts), sep)

\* ------------------------------------------------------------------ pathlib

RECURSIVE DropEmptyAndDot(_)
\* the components pathlib keeps: empty ones and "." are dropped
DropEmptyAndDot(parts) ==
  IF parts = <<>> THEN <<>>
  ELSE IF Head(parts) = <<>> \/ Head(parts) = <<".">>
       THEN DropEmptyAndDot(Tail(parts))
       ELSE << Head(parts) >> \o DropEmptyAndDot(Tail(parts))

\* PurePosixPath(p).parts without the root
PathParts(p) == DropEmptyAndDot(Split(p, "/"))

\* PurePosixPath(p).root
PathRoot(p) == IF p # <<>> /\ p[1] = "/" THEN <<"/">> ELSE <<>>

\* str(Path(p))
PathStr(p) ==
  LET parts == PathParts(p) IN
    IF parts = <<>> THEN (IF PathRoot(p) = <<>> THEN <<".">> ELSE PathRoot(p))
    ELSE PathRoot(p) \o Join(parts, <<"/">>)

\* Path(p).name
PathName(p) ==
  LET parts == PathParts(p) IN IF parts = <<>> THEN <<>> ELSE parts[Len(parts)]

\* str(Path(p).parent)
PathParent(p) ==
  LET parts == PathParts(p) IN
    IF Len(parts) <= 1
    THEN (IF PathRoot(p) = <<>> THEN <<".">> ELSE PathRoot(p))
    ELSE PathRoot(p) \o Join(SubSeq(parts, 1, Len(parts) - 1), <<"/">>)

\* Path(name).suffix: from the last dot, unless the dot is first or last
NameSuffix(name) ==
  LET i == RFindChar(name, ".") IN
    IF 1 < i /\ i < Len(name) THEN SubSeq(name, i, Len(name)) ELSE <<>>

\* Path(name).stem
NameStem(name) ==
  LET i == RFindChar(name, ".") IN
    IF 1 < i /\ i < Len(name) THEN SubSeq(name, 1, i - 1) ELSE name

\* Path(p).suffix
PathSuffix(p) == NameSuffix(PathName(p))

\* ------------------------------------------------------------------ constants

\* RemoveLink.VIDEO_EXTENSIONS
VIDEO_EXTENSIONS ==
  { <<".","m","k","v">>, <<".","m","p","4">>, <<".","t","s">>, <<".","m","2","t","s">>,
    <<".","a","v","i">>, <<".","m","o","v">>, <<".","f","l","v">>, <<".","w","m","v">>,
    <<".","m","p","e","g">>, <<".","m","p","g">> }

\* the companion extensions on_deleted dispatches on
SUBTITLE_EXTENSIONS == { <<".","s","r","t">>, <<".","a","s","s">> }

\* the pointer extension on_deleted dispatches on
STRM_EXT == <<".","s","t","r","m">>

\* the temporary-file suffixes _is_excluded_file rejects
TEMP_SUFFIXES ==
  { <<".","!","q","B">>, <<".","p","a","r","t">>, <<".","m","p">>,
    <<".","t","m","p">>, <<".","t","e","m","p">> }

\* the default storage type of a two-field mapping line
LOCAL_TYPE == <<"l","o","c","a","l">>

\* ------------------------------------------------------------------ PathMapper

\* mappings[key] = val on a dict kept in insertion order: a key already present
\* keeps its position and takes the new value
DictSet(d, key, val) ==
  IF \E i \in 1..Len(d) : d[i].key = key
  THEN [i \in 1..Len(d) |-> IF d[i].key = key THEN [key |-> key, val |-> val] ELSE d[i]]
  ELSE Append(d, [key |-> key, val |-> val])

\* one iteration of the loop of _parse_strm_path_mappings
ParseLine(mappings, rawline) ==
  LET line == Strip(rawline) IN
    IF line = <<>> \/ ~Contains(line, <<":">>) THEN mappings
    ELSE
      LET parts == SplitMax(line, ":", 2)
          local_path == Strip(parts[1])
          storage_type == IF Len(parts) = 2 THEN LOCAL_TYPE ELSE parts[2]
          storage_path == Strip(IF Len(parts) = 2 THEN parts[2] ELSE parts[3])
      IN IF Len(parts) \notin {2, 3} THEN mappings
         ELSE IF local_path = <<>> THEN mappings
         ELSE DictSet(mappings, local_path,
                      [type |-> Strip(storage_type), path |-> storage_path])

RECURSIVE ParseLines(_, _)
\* the loop of _parse_strm_path_mappings over the lines, in order
ParseLines(mappings, lines) ==
  IF lines = <<>> THEN mappings
  ELSE ParseLines(ParseLine(mappings, Head(lines)), Tail(lines))

\* RemoveLink._parse_strm_path_mappings: the dict as the sequence of its items
ParseMappings(text) ==
  IF text = <<>> THEN <<>> ELSE ParseLines(<<>>, Split(text, "\n"))

\* the (None, None) result of _get_target_path
NoTarget == [found |-> FALSE, type |-> <<>>, path |-> <<>>]

\* the body of the loop of _get_target_path for the rule that matched
TargetFor(rule, local_path_str, keep_suffix) ==
  LET rel0 == LStripChars(SubSeq(local_path_str, Len(rule.key) + 1, Len(local_path_str)), {"/"})
      relative_path ==
        IF ~keep_suffix /\ EndsWith(Lower(rel0), STRM_EXT)
        THEN SubSeq(rel0, 1, Len(rel0) - 5)
        ELSE rel0
  IN [found |-> TRUE,
      type  |-> rule.val.type,
      path  |-> RStripChars(rule.val.path, {"/"}) \o <<"/">> \o relative_path]

\* the dict scan with the most specific (longest) matching key taken instead
LongestMatch(mappings, local_path_str) ==
  IF \E i \in 1..Len(mappings) : StartsWith(local_path_str, mappings[i].key)
  THEN CHOOSE i \in 1..Len(mappings) :
         /\ StartsWith(local_path_str, mappings[i].key)
         /\ \A j \in 1..Len(mappings) :
              StartsWith(local_path_str, mappings[j].key) => Len(mappings[j].key) <= Len(mappings[i].key)
  ELSE 0

\* the first index of the dict whose key prefixes the path, 0 when there is none
FirstMatch(mappings, local_path_str) ==
  IF \E i \in 1..Len(mappings) : StartsWith(local_path_str, mappings[i].key)
  THEN CHOOSE i \in 1..Len(mappings) :
         /\ StartsWith(local_path_str, mappings[i].key)
         /\ \A j \in 1..(i - 1) : ~StartsWith(local_path_str, mappings[j].key)
  ELSE 0

\* RemoveLink._get_target_path
GetTargetPath(text, local_file_path, keep_suffix) ==
  LET mappings == ParseMappings(text)
      local_path_str == PathStr(local_file_path)
      i == FirstMatch(mappings, local_path_str)
  IN IF i = 0 THEN NoTarget ELSE TargetFor(mappings[i], local_path_str, keep_suffix)

\* ------------------------------------------------------------------ state

VARIABLES
  strm_path_mappings,  \* RemoveLink.strm_path_mappings: the raw mapping text
  exclude_keywords,    \* RemoveLink.exclude_keywords: the raw keyword text
  notify,              \* RemoveLink._notify
  dirs,                \* backend: the directories that exist, [storage, path]
  store,               \* backend: the entries that exist, in listing order
  running,             \* the watcher threads that deliver events
  alive,               \* alive[w]: no exception has reached watcher w's thread
  th,                  \* th[w]: the event watcher w is processing, and where it is
  done,                \* history: the events that reached a terminal state, in order
  delivered,           \* number of events delivered so far
  faults,              \* number of backend failures injected so far
  query,               \* resolution harness: the arguments of _get_target_path
  answer,              \* resolution harness: its result
  table,               \* resolution harness: the result of _parse_strm_path_mappings
  enabled,             \* RemoveLink._enabled
  monitor,             \* RemoveLink._monitor_strm_deletion
  observers,           \* RemoveLink._observer: the registry, in append order
  oroot,               \* oroot[w]: the root observer w is scheduled on
  stopping,            \* the observers whose stop() has taken effect
  host,                \* the host thread inside init_plugin / stop_service
  wlog,                \* history of the host thread's calls
  fs                   \* the local deletions and the event queue of each observer

vars == << strm_path_mappings, exclude_keywords, notify, dirs, store, running, alive,
           th, done, delivered, faults, query, answer, table,
           enabled, monitor, observers, oroot, stopping, host, wlog, fs >>

config_vars == << strm_path_mappings, exclude_keywords, notify >>

harness_vars == << query, answer, table >>

watch_vars == << enabled, monitor, observers, oroot, stopping, host, wlog, fs >>

\* the watcher threads (one observer thread per watched root)
Watchers == {"w1", "w2"}

\* events delivered in one behaviour
MaxEvents == 2

\* backend failures (a raise, or a delete that returns False) in one behaviour
MaxFaults == 1

\* the configuration fields an event's pipeline has read so far: the keywords in
\* _is_excluded_file, the table in _get_target_path, the flag in the handler's
\* notification test
NoRead == [keywords |-> <<>>, mappings |-> <<>>, notify |-> "unread"]

\* the value of self._notify as the handler's test read it
FlagRead(flag) == IF flag THEN "True" ELSE "False"

\* a watcher between two events
IdleThread ==
  [pc |-> "idle", path |-> <<>>, isdir |-> FALSE, kind |-> "none", resolved |-> FALSE,
   target |-> NoTarget, listed |-> FALSE, listing |-> <<>>, matched |-> <<>>,
   queue |-> <<>>, deleted |-> <<>>, calls |-> <<>>, notified |-> FALSE,
   text |-> [trigger |-> <<>>, lines |-> <<>>], dir |-> <<>>,
   read |-> NoRead, under |-> <<>>]

\* ------------------------------------------------------------------ EventDispatcher

\* the exclusion test with the keyword loop left out
IsExcludedFileTempOnly(file_path, keywords_text) == PathSuffix(file_path) \in TEMP_SUFFIXES

\* FileMonitorHandler._is_excluded_file
IsExcludedFile(file_path, keywords_text) ==
  \/ PathSuffix(file_path) \in TEMP_SUFFIXES
  \/ /\ keywords_text # <<>>
     /\ LET kws == Split(keywords_text, "\n") IN
          \E i \in 1..Len(kws) : kws[i] # <<>> /\ Contains(PathStr(file_path), kws[i])

\* the routing with the extension compared as written, not lowered
ClassifyCaseSensitive(e, keywords_text) ==
  LET file_ext == PathSuffix(e.path) IN
    IF e.isdir THEN "skip"
    ELSE IF IsExcludedFile(e.path, keywords_text) THEN "skip"
    ELSE IF file_ext = STRM_EXT THEN "strm"
    ELSE IF file_ext \in SUBTITLE_EXTENSIONS THEN "subtitle"
    ELSE "skip"

\* the branch on_deleted takes: which handler, if any, the event is routed to
Classify(e, keywords_text) ==
  LET file_ext == Lower(PathSuffix(e.path)) IN
    IF e.isdir THEN "skip"
    ELSE IF IsExcludedFile(e.path, keywords_text) THEN "skip"
    ELSE IF file_ext = STRM_EXT THEN "strm"
    ELSE IF file_ext \in SUBTITLE_EXTENSIONS THEN "subtitle"
    ELSE "skip"

\* the keep_suffix argument each handler passes to _get_target_path
KeepSuffix(kind) == kind # "strm"

\* `if not storage_type or not target_path` of both handlers
Unmapped(r) == r.type = <<>> \/ r.path = <<>>

\* the path of the dir_item both finders build from the target path
DirItemPath(target_path) ==
  LET target_dir == PathParent(target_path) IN
    IF EndsWith(target_dir, <<"/">>) THEN target_dir ELSE target_dir \o <<"/">>

\* ------------------------------------------------------------------ StorageGateway

\* StorageChain.exists(dir_item)
BackendExists(storage, dirpath) == [storage |-> storage, path |-> dirpath] \in dirs

\* StorageChain.list_files(dir_item, recursion=False)
BackendList(storage, dirpath) ==
  LET InDir(e) == e.storage = storage /\ e.dir = dirpath IN SelectSeq(store, InDir)

\* the store once StorageChain.delete_file(file_item) has removed the entry
BackendRemove(entry) ==
  LET Other(e) == e # entry IN SelectSeq(store, Other)

\* is the entry still on the backend
Present(entry) == \E i \in 1..Len(store) : store[i] = entry

\* ------------------------------------------------------------------ Matcher

\* the test with the file-kind check left out
IsSameNameVideoAnyKind(file_item, base_name) ==
  /\ NameStem(file_item.name) = base_name
  /\ Lower(NameSuffix(file_item.name)) \in VIDEO_EXTENSIONS

\* the test of the loop of _find_video_by_basename
IsSameNameVideo(file_item, base_name) ==
  /\ file_item.type = "file"
  /\ NameStem(file_item.name) = base_name
  /\ Lower(NameSuffix(file_item.name)) \in VIDEO_EXTENSIONS

\* the matching loop stopping at the first video found
FindFirstVideoOnly(files, target_path) ==
  LET base_name == PathName(target_path)
      Match(f) == IsSameNameVideo(f, base_name)
      found == SelectSeq(files, Match)
  IN IF found = <<>> THEN <<>> ELSE << found[1] >>

\* RemoveLink._find_video_by_basename, after the listing
FindVideoByBasename(files, target_path) ==
  LET base_name == PathName(target_path)
      Match(f) == IsSameNameVideo(f, base_name)
  IN SelectSeq(files, Match)

\* the test of the loop of _find_file_by_full_name
IsFullNameFile(file_item, target_filename) ==
  file_item.type = "file" /\ file_item.name = target_filename

\* RemoveLink._find_file_by_full_name, after the listing: the first match or none
FindFileByFullName(files, target_path) ==
  LET target_filename == PathName(target_path)
      Match(f) == IsFullNameFile(f, target_filename)
      found == SelectSeq(files, Match)
  IN IF found = <<>> THEN <<>> ELSE << found[1] >>

\* ------------------------------------------------------------------ inputs

\* the worlds below are built from these path pieces
Rt(c) == <<"/", c>>

NL == <<"\n">>

\* a schemas.FileItem as the listing returns it (path is dir \o name)
Item(storage, dir, name, type, fileid) ==
  [storage |-> storage, dir |-> dir, name |-> name, type |-> type, fileid |-> fileid]

\* the storage type of the three-field mapping line used below
U115 == <<"u">>

\* the target tree on the backends when the plugin starts, in listing order
InitialStore ==
  << Item(LOCAL_TYPE, <<"/","x","/">>, <<"m",".","a","v","i">>, "dir", 1),
     Item(LOCAL_TYPE, <<"/","x","/">>, <<"m",".","m","k","v">>, "file", 2),
     Item(LOCAL_TYPE, <<"/","x","/">>, <<"m","2",".","m","k","v">>, "file", 3),
     Item(LOCAL_TYPE, <<"/","x","/">>, <<"m",".","M","P","4">>, "file", 4),
     Item(LOCAL_TYPE, <<"/","x","/">>, <<"m",".","n","f","o">>, "file", 5),
     Item(LOCAL_TYPE, <<"/","x","/">>, <<"M",".","m","k","v">>, "file", 6),
     Item(LOCAL_TYPE, <<"/","x","/">>, <<"m",".","s","r","t">>, "dir", 7),
     Item(LOCAL_TYPE, <<"/","x","/">>, <<"m",".","e","n",".","s","r","t">>, "file", 8),
     Item(LOCAL_TYPE, <<"/","x","/">>, <<"M",".","s","r","t">>, "file", 9),
     Item(LOCAL_TYPE, <<"/","x","/">>, <<"m",".","s","r","t">>, "file", 10),
     Item(LOCAL_TYPE, <<"/","y","/">>, <<"r","t">>, "file", 11),
     Item(LOCAL_TYPE, <<"/","y","/">>, <<"t","r","m",".","m","k","v">>, "file", 12),
     Item(U115, <<"/","x","/">>, <<"m",".","m","k","v">>, "file", 13) >>

\* the directories that exist on the backends (/z does not)
InitialDirs ==
  { [storage |-> LOCAL_TYPE, path |-> <<"/","x","/">>],
    [storage |-> LOCAL_TYPE, path |-> <<"/","y","/">>],
    [storage |-> U115, path |-> <<"/","x","/">>] }

\* the configurations init_plugin is given
Configs ==
  { \* /a:/x  and  /b:/z ; no keyword ; notify on
    [mappings |-> Rt("a") \o <<":">> \o Rt("x") \o NL \o Rt("b") \o <<":">> \o Rt("z"),
     keywords |-> <<>>, notify |-> TRUE],
    \* /a/m.s:/y  before  /a:/x ; keywords "" and "sk" ; notify off
    [mappings |-> Rt("a") \o Rt("m") \o <<".","s",":">> \o Rt("y") \o NL
                  \o Rt("a") \o <<":">> \o Rt("x"),
     keywords |-> NL \o <<"s","k">>, notify |-> FALSE],
    \* /a::/x : a three-field line whose storage type is empty
    [mappings |-> Rt("a") \o <<":",":">> \o Rt("x"),
     keywords |-> <<"s","k">>, notify |-> TRUE],
    \* " /a : u : /x/ " : three fields, padded, target root with a trailing slash
    [mappings |-> <<" ">> \o Rt("a") \o <<" ",":"," ","u"," ",":"," ">> \o Rt("x") \o <<"/"," ">>,
     keywords |-> <<>>, notify |-> TRUE] }

\* the deletion events the watchers deliver: event.src_path, event.is_directory
Events ==
  { [path |-> Rt("a") \o Rt("m") \o <<".","s","t","r","m">>, isdir |-> FALSE],
    [path |-> Rt("a") \o Rt("m") \o <<".","S","T","R","M">>, isdir |-> FALSE],
    [path |-> Rt("a") \o Rt("m") \o <<".","s","r","t">>, isdir |-> FALSE],
    [path |-> Rt("b") \o Rt("m") \o <<".","s","t","r","m">>, isdir |-> FALSE],
    [path |-> Rt("c") \o Rt("m") \o <<".","s","r","t">>, isdir |-> FALSE],
    [path |-> Rt("a") \o <<"/","s","k",".","s","t","r","m">>, isdir |-> FALSE],
    [path |-> Rt("a") \o Rt("m") \o <<".","s","t","r","m">>, isdir |-> TRUE],
    [path |-> Rt("a") \o Rt("m") \o <<".","n","f","o">>, isdir |-> FALSE],
    [path |-> Rt("a") \o Rt("m") \o <<".","t","m","p">>, isdir |-> FALSE] }

\* ------------------------------------------------------------------ the pipeline

\* the handlers without their try/except: the exception reaches the watcher thread
HandlerNoExcept == [outcome |-> "Crashed", alive |-> FALSE]

\* the `except Exception` clause of handle_strm_deleted / handle_subtitle_deleted:
\* the event is abandoned and the watcher thread goes on
HandlerExcept == [outcome |-> "Abandoned", alive |-> TRUE]

\* _delete_file without its try/except: a raise of the backend reaches the handler
DeleteFileReturnNoCatch(r) ==
  IF r = "true" THEN "True" ELSE IF r = "false" THEN "False" ELSE "raise"

\* what _delete_file returns for what the backend delete did: a raise is caught
DeleteFileReturn(r) == IF r = "true" THEN "True" ELSE "False"

\* a handler whose end is reached twice for one event
TerminateTwice(w, t, outcome) ==
  /\ done' = done \o << [w |-> w, outcome |-> outcome, ev |-> t],
                         [w |-> w, outcome |-> outcome, ev |-> t] >>
  /\ th' = [th EXCEPT ![w] = IdleThread]

\* an event reaches a terminal state: it is recorded and the watcher is idle again
Terminate(w, t, outcome) ==
  /\ done' = Append(done, [w |-> w, outcome |-> outcome, ev |-> t])
  /\ th' = [th EXCEPT ![w] = IdleThread]

\* an exception reaches the handler's try block
Raise(w, t) ==
  /\ Terminate(w, t, HandlerExcept.outcome)
  /\ alive' = [alive EXCEPT ![w] = HandlerExcept.alive]

\* a record of one backend call, kept for the properties
Call(op, dir, entry, res, present) ==
  [op |-> op, dir |-> dir, entry |-> entry, res |-> res, present |-> present]

NoItem == Item(<<>>, <<>>, <<>>, "none", 0)

\* on_deleted, then the handler up to its first backend call: the resolution and
\* the dir_item of the finder
OnDeleted(w, e) ==
  /\ w \in running /\ alive[w] /\ th[w].pc = "idle"
  /\ delivered < MaxEvents
  /\ delivered' = delivered + 1
  /\ LET kind == Classify(e, exclude_keywords)
         t0 == [IdleThread EXCEPT !.path = PathStr(e.path), !.isdir = e.isdir, !.kind = kind,
                                  !.read.keywords = exclude_keywords,
                                  !.under = wlog.under[w]]
     IN IF kind = "skip"
        THEN Terminate(w, t0, "Skipped")
        ELSE LET r == GetTargetPath(strm_path_mappings, e.path, KeepSuffix(kind))
                 t1 == [t0 EXCEPT !.resolved = TRUE, !.target = r,
                                  !.read.mappings = strm_path_mappings]
             IN IF Unmapped(r)
                THEN Terminate(w, t1, "Skipped")
                ELSE /\ th' = [th EXCEPT ![w] = [t1 EXCEPT !.pc = "exists",
                                                            !.dir = DirItemPath(r.path)]]
                     /\ UNCHANGED done
  /\ UNCHANGED << config_vars, dirs, store, running, alive, faults, harness_vars, watch_vars >>

\* the finders without their existence test: the listing follows in any case
ExistsUnchecked(w) ==
  /\ w \in running /\ th[w].pc = "exists"
  /\ LET t == th[w]
         d == t.dir
         r == IF BackendExists(t.target.type, d) THEN "true" ELSE "false"
     IN /\ th' = [th EXCEPT ![w] = [t EXCEPT !.pc = "list",
                    !.calls = Append(@, Call("exists", d, NoItem, r, TRUE))]]
        /\ UNCHANGED << done, alive, faults >>
  /\ UNCHANGED << config_vars, dirs, store, running, delivered, harness_vars, watch_vars >>

\* self._storagechain.exists(dir_item) in either finder
Exists(w) ==
  /\ w \in running /\ th[w].pc = "exists"
  /\ LET t == th[w]
         d == t.dir
     IN \/ /\ faults < MaxFaults
           /\ faults' = faults + 1
           /\ Raise(w, [t EXCEPT !.calls = Append(@, Call("exists", d, NoItem, "raise", TRUE))])
        \/ /\ BackendExists(t.target.type, d)
           /\ th' = [th EXCEPT ![w] = [t EXCEPT !.pc = "list",
                       !.calls = Append(@, Call("exists", d, NoItem, "true", TRUE))]]
           /\ UNCHANGED << done, alive, faults >>
        \/ /\ ~BackendExists(t.target.type, d)
           /\ Terminate(w, [t EXCEPT !.calls = Append(@, Call("exists", d, NoItem, "false", TRUE)),
                                     !.read.notify = FlagRead(notify)],
                        "Completed")
           /\ UNCHANGED << alive, faults >>
  /\ UNCHANGED << config_vars, dirs, store, running, delivered, harness_vars, watch_vars >>

\* self._storagechain.list_files(dir_item, recursion=False) and the matching loop
ListFiles(w) ==
  /\ w \in running /\ th[w].pc = "list"
  /\ LET t == th[w]
         d == t.dir
         files == BackendList(t.target.type, d)
         matched == IF t.kind = "strm"
                    THEN FindVideoByBasename(files, t.target.path)
                    ELSE FindFileByFullName(files, t.target.path)
         t1 == [t EXCEPT !.listed = TRUE, !.listing = files, !.matched = matched,
                         !.queue = matched,
                         !.calls = Append(@, Call("list", d, NoItem, "ok", TRUE))]
     IN \/ /\ faults < MaxFaults
           /\ faults' = faults + 1
           /\ Raise(w, [t EXCEPT !.calls = Append(@, Call("list", d, NoItem, "raise", TRUE))])
        \/ /\ matched = <<>>
           /\ Terminate(w, [t1 EXCEPT !.read.notify = FlagRead(notify)], "Completed")
           /\ UNCHANGED << alive, faults >>
        \/ /\ matched # <<>>
           /\ th' = [th EXCEPT ![w] = [t1 EXCEPT !.pc = "delete"]]
           /\ UNCHANGED << done, alive, faults >>
  /\ UNCHANGED << config_vars, dirs, store, running, delivered, harness_vars, watch_vars >>

\* the notification test without the flag: any successful delete notifies
ShouldNotifyAnyDelete(flag, deleted_files) == deleted_files # <<>>

\* `if self._notify and deleted_files` of either handler
ShouldNotify(flag, deleted_files) == flag /\ deleted_files # <<>>

\* the text of the notification: the triggering path, then one line per entry of
\* deleted_files, "视频：[type] path" for a pointer and "字幕：[type] path" for a
\* companion
MessageText(t) ==
  [trigger |-> t.path,
   lines |-> [i \in 1..Len(t.deleted) |->
                [label |-> IF t.kind = "strm" THEN "video" ELSE "subtitle",
                 storage |-> t.target.type,
                 path |-> t.deleted[i].dir \o t.deleted[i].name]]]

\* what the backend delete can do: remove the entry and return True, return False,
\* or raise; a failure on an entry that is there is an injected fault
DeleteOutcomes(entry) ==
  IF Present(entry)
  THEN {"true"} \cup (IF faults < MaxFaults THEN {"false", "raise"} ELSE {})
  ELSE {"true", "false", "raise"}

\* one iteration of the delete loop: _delete_file on the next match, and, after
\* the last one, the `if self._notify and deleted_files` test
DeleteFile(w) ==
  /\ w \in running /\ th[w].pc = "delete"
  /\ LET t == th[w]
         entry == Head(t.queue)
         d == entry.dir
     IN \E r \in DeleteOutcomes(entry) :
          LET ret == DeleteFileReturn(r)
              t1 == [t EXCEPT !.queue = Tail(@),
                              !.deleted = IF ret = "True" THEN Append(@, entry) ELSE @,
                              !.calls = Append(@, Call("delete", d, entry, r, Present(entry)))]
          IN /\ faults' = IF Present(entry) /\ r # "true" THEN faults + 1 ELSE faults
             /\ store' = IF r = "true" THEN BackendRemove(entry) ELSE store
             /\ IF ret = "raise"
                THEN Raise(w, t1)
                ELSE /\ UNCHANGED alive
                     /\ IF t1.queue # <<>>
                        THEN th' = [th EXCEPT ![w] = t1] /\ UNCHANGED done
                        ELSE LET t2 == [t1 EXCEPT !.read.notify = FlagRead(notify)]
                             IN IF ShouldNotify(notify, t1.deleted)
                                THEN th' = [th EXCEPT ![w] = [t2 EXCEPT !.pc = "notify"]]
                                     /\ UNCHANGED done
                                ELSE Terminate(w, t2, "Completed")
  /\ UNCHANGED << config_vars, dirs, running, delivered, harness_vars, watch_vars >>

\* self.post_message(...) of either handler
PostMessage(w) ==
  /\ w \in running /\ th[w].pc = "notify"
  /\ LET t == th[w]
     IN \/ /\ faults < MaxFaults
           /\ faults' = faults + 1
           /\ Raise(w, [t EXCEPT !.text = MessageText(t),
                                  !.calls = Append(@, Call("post", <<>>, NoItem, "raise", TRUE))])
        \/ /\ Terminate(w, [t EXCEPT !.notified = TRUE, !.text = MessageText(t),
                                     !.calls = Append(@, Call("post", <<>>, NoItem, "ok", TRUE))],
                        "Completed")
           /\ UNCHANGED << alive, faults >>
  /\ UNCHANGED << config_vars, dirs, store, running, delivered, harness_vars, watch_vars >>

\* the host thread outside init_plugin and stop_service
HostIdle == [pc |-> "idle", op |-> "none", i |-> 0, dirs |-> <<>>]

\* nothing recorded about the host thread's calls
NoLog ==
  [calls |-> 0, last |-> "none", reported |-> {}, surfaced |-> {}, failed |-> {},
   started |-> {}, dropped |-> {}, under |-> [w \in Watchers |-> <<>>]]

\* no local deletion yet, every event queue empty
NoDeletion ==
  [n |-> 0, inbox |-> [w \in Watchers |-> <<>>], base |-> [w \in Watchers |-> 0]]

\* the plugin with the observers in ws started and registered, the host at rest
Watching(ws) ==
  /\ enabled = TRUE
  /\ monitor = TRUE
  /\ observers = IF "w2" \in ws THEN <<"w1", "w2">> ELSE IF "w1" \in ws THEN <<"w1">> ELSE <<>>
  /\ oroot = [w \in Watchers |-> <<>>]
  /\ stopping = {}
  /\ host = HostIdle
  /\ wlog = [NoLog EXCEPT !.started = ws,
                           !.under = [w \in Watchers |-> IF w \in ws THEN strm_path_mappings
                                                          ELSE <<>>]]
  /\ fs = NoDeletion

\* the state after init_plugin(config) with the watchers in ws started
InitWith(ws, cfgs) ==
  /\ \E c \in cfgs :
       /\ strm_path_mappings = c.mappings
       /\ exclude_keywords = c.keywords
       /\ notify = c.notify
  /\ dirs = InitialDirs
  /\ store = InitialStore
  /\ running = ws
  /\ alive = [w \in Watchers |-> TRUE]
  /\ th = [w \in Watchers |-> IdleThread]
  /\ done = <<>>
  /\ delivered = 0
  /\ faults = 0
  /\ query = [path |-> <<>>, keep |-> TRUE]
  /\ answer = [asked |-> FALSE, r |-> NoTarget]
  /\ table = [asked |-> FALSE, r |-> <<>>]
  /\ Watching(ws)

\* one watched root: events are processed one after the other
Init == InitWith({"w1"}, Configs)

Next ==
  \E w \in Watchers :
    \/ \E e \in Events : OnDeleted(w, e)
    \/ Exists(w)
    \/ ListFiles(w)
    \/ DeleteFile(w)
    \/ PostMessage(w)

Spec == Init /\ [][Next]_vars

\* ------------------------------------------------------------------ two watched roots

\* the next backend call of the event watcher w is processing
Step(w) == Exists(w) \/ ListFiles(w) \/ DeleteFile(w) \/ PostMessage(w)

\* one watched root, and every backend call of a handler returns or raises: the
\* observer thread is scheduled and a handler in progress takes its next step
SpecLive == Init /\ [][Next]_vars /\ \A w \in Watchers : WF_vars(Step(w))

\* two watchers deliver events concurrently; one configuration, pointer and
\* companion events of the same target
RaceConfigs == { c \in Configs : c.notify /\ c.keywords = <<>> /\ Len(ParseMappings(c.mappings)) = 2 }

InitRace == InitWith(Watchers, RaceConfigs)

SpecRace == InitRace /\ [][Next]_vars

\* ------------------------------------------------------------------ resolution harness

\* mapping texts given to _get_target_path through self.strm_path_mappings
ResolveTexts ==
  { \* /a:/x , /a/b:/y
    Rt("a") \o <<":">> \o Rt("x") \o NL \o Rt("a") \o Rt("b") \o <<":">> \o Rt("y"),
    \* /a/b:/y , /a:/x
    Rt("a") \o Rt("b") \o <<":">> \o Rt("y") \o NL \o Rt("a") \o <<":">> \o Rt("x"),
    \* /a:/x , /a:/y
    Rt("a") \o <<":">> \o Rt("x") \o NL \o Rt("a") \o <<":">> \o Rt("y"),
    \* /a/b:/y , /a:/x , /a/b:u:/z
    Rt("a") \o Rt("b") \o <<":">> \o Rt("y") \o NL \o Rt("a") \o <<":">> \o Rt("x") \o NL
      \o Rt("a") \o Rt("b") \o <<":","u",":">> \o Rt("z"),
    \* the empty text
    <<>>,
    \* a line without colon, a line with an empty source root, /a:u:/x/
    <<"q">> \o NL \o <<":">> \o Rt("x") \o NL \o Rt("a") \o <<":","u",":">> \o Rt("x") \o <<"/">>,
    \* /m:/x , /m2:/y
    Rt("m") \o <<":">> \o Rt("x") \o NL \o Rt("m") \o <<"2",":">> \o Rt("y"),
    \* " /a : /x " , an empty line , /b:/y
    <<" ">> \o Rt("a") \o <<" ",":"," ">> \o Rt("x") \o <<" ">> \o NL \o NL
      \o Rt("b") \o <<":">> \o Rt("y"),
    \* /a/b/c.s:/y , /a:/x
    Rt("a") \o Rt("b") \o Rt("c") \o <<".","s",":">> \o Rt("y") \o NL \o Rt("a") \o <<":">> \o Rt("x"),
    \* /a:u:/x:/y , /b:/y : a line of four fields before a line of two
    Rt("a") \o <<":","u",":">> \o Rt("x") \o <<":">> \o Rt("y") \o NL \o Rt("b") \o <<":">> \o Rt("y") }

\* the paths given to _get_target_path
ResolvePaths ==
  { Rt("a") \o Rt("b") \o Rt("c") \o <<".","s","t","r","m">>,
    Rt("a") \o Rt("b") \o Rt("c") \o <<".","s","r","t">>,
    Rt("a") \o Rt("c") \o <<".","S","T","R","M">>,
    Rt("a") \o <<"/">> \o Rt("c") \o <<".","s","r","t">>,
    Rt("m") \o <<"2">> \o Rt("c") \o <<".","s","t","r","m">>,
    Rt("b") \o Rt("c") \o <<".","a","s","s">>,
    Rt("q") \o Rt("c") \o <<".","s","t","r","m">> }

InitResolve ==
  /\ strm_path_mappings \in ResolveTexts
  /\ exclude_keywords = <<>>
  /\ notify = FALSE
  /\ dirs = {}
  /\ store = <<>>
  /\ running = {}
  /\ alive = [w \in Watchers |-> TRUE]
  /\ th = [w \in Watchers |-> IdleThread]
  /\ done = <<>>
  /\ delivered = 0
  /\ faults = 0
  /\ query \in [path : ResolvePaths, keep : BOOLEAN]
  /\ answer = [asked |-> FALSE, r |-> NoTarget]
  /\ table = [asked |-> FALSE, r |-> <<>>]
  /\ Watching({})

\* a call of _get_target_path(query.path, keep_suffix = query.keep)
Resolve ==
  /\ ~answer.asked
  /\ answer' = [asked |-> TRUE, r |-> GetTargetPath(strm_path_mappings, query.path, query.keep)]
  /\ UNCHANGED << config_vars, dirs, store, running, alive, th, done, delivered, faults, query, table, watch_vars >>

\* a call of _parse_strm_path_mappings()
ParseCall ==
  /\ ~table.asked
  /\ table' = [asked |-> TRUE, r |-> ParseMappings(strm_path_mappings)]
  /\ UNCHANGED << config_vars, dirs, store, running, alive, th, done, delivered, faults,
                  query, answer, watch_vars >>

NextResolve == Resolve \/ ParseCall

SpecResolve == InitResolve /\ [][NextResolve]_vars

\* the set of elements of a sequence
Range(q) == { q[i] : i \in 1..Len(q) }

\* ------------------------------------------------------------------ the watch set

\* calls of init_plugin and stop_service in one behaviour
MaxCalls == 2

\* local deletions in one behaviour of the watch specification
MaxWatchEvents == 1

\* the local directories os.path.exists finds: /a, /a2 and /a/b (not /b)
ExistingRoots == { Rt("a"), Rt("a") \o <<"2">>, Rt("a") \o Rt("b") }

\* the configurations init_plugin is called with
WatchConfigs ==
  { \* /a:/x , /a2:/y : sibling roots, both on disk
    [enabled |-> TRUE, monitor |-> TRUE, notify |-> TRUE, keywords |-> <<>>,
     mappings |-> Rt("a") \o <<":">> \o Rt("x") \o NL \o Rt("a") \o <<"2",":">> \o Rt("y")],
    \* /b:/z , /a2:/y , /a2:/x : the first root is missing, the second is repeated
    [enabled |-> TRUE, monitor |-> TRUE, notify |-> TRUE, keywords |-> <<>>,
     mappings |-> Rt("b") \o <<":">> \o Rt("z") \o NL \o Rt("a") \o <<"2",":">> \o Rt("y")
                  \o NL \o Rt("a") \o <<"2",":">> \o Rt("x")],
    \* /a:/x , /b:/z : the last root is missing
    [enabled |-> TRUE, monitor |-> TRUE, notify |-> TRUE, keywords |-> <<>>,
     mappings |-> Rt("a") \o <<":">> \o Rt("x") \o NL \o Rt("b") \o <<":">> \o Rt("z")],
    \* the monitor flag is off
    [enabled |-> TRUE, monitor |-> FALSE, notify |-> TRUE, keywords |-> <<>>,
     mappings |-> Rt("a") \o <<":">> \o Rt("x")],
    \* the plugin is disabled, and the notifications with it
    [enabled |-> FALSE, monitor |-> TRUE, notify |-> FALSE, keywords |-> <<>>,
     mappings |-> Rt("a") \o <<":">> \o Rt("x")],
    \* a table with no valid rule
    [enabled |-> TRUE, monitor |-> TRUE, notify |-> TRUE, keywords |-> <<>>,
     mappings |-> <<"q">>],
    \* /a/b:/x , /a:/z : the first root lies inside the second, both on disk
    [enabled |-> TRUE, monitor |-> TRUE, notify |-> TRUE, keywords |-> <<>>,
     mappings |-> Rt("a") \o Rt("b") \o <<":">> \o Rt("x") \o NL \o Rt("a") \o <<":">> \o Rt("z")] }

\* the deletions the operating system reports
WatchEvents ==
  { [path |-> Rt("a") \o Rt("m") \o <<".","s","t","r","m">>, isdir |-> FALSE],
    [path |-> Rt("a") \o <<"2">> \o Rt("m") \o <<".","s","t","r","m">>, isdir |-> FALSE],
    [path |-> Rt("a") \o Rt("b") \o Rt("m") \o <<".","s","t","r","m">>, isdir |-> FALSE] }

\* the path lies in the directory tree of root (observer.schedule, recursive=True)
UnderRoot(path, root) == StartsWith(path, root \o <<"/">>)

\* the observer ids no live thread and no registry entry uses
FreeObservers == { w \in Watchers : w \notin running /\ w \notin Range(observers) }

\* the start loop without its try/except: the exception leaves init_plugin
StartFailureAborts == [continue |-> FALSE, surfaced |-> FALSE]

\* the `except Exception` clause of the start loop: the failure is logged, put
\* on systemmessage, and the loop goes on with the next root
StartFailure == [continue |-> TRUE, surfaced |-> TRUE]

\* the events observer thread w has finished
DoneBy(w) == Cardinality({ i \in 1..Len(done) : done[i].w = w })

\* the events of its queue observer thread w has taken so far
Taken(w) == DoneBy(w) - fs.base[w] + (IF th[w].pc # "idle" THEN 1 ELSE 0)

\* a file or directory is deleted on the local disk: every running observer whose
\* recursive watch covers the path gets the event in its queue
FileDeleted(e) ==
  /\ fs.n < MaxWatchEvents
  /\ LET covering == { w \in running : w \notin stopping /\ UnderRoot(PathStr(e.path), oroot[w]) }
     IN /\ covering # {}
        /\ fs' = [fs EXCEPT
              !.n = @ + 1,
              !.inbox = [w \in Watchers |->
                           IF w \in covering
                           THEN Append(@[w], [path |-> e.path, isdir |-> e.isdir, id |-> fs.n + 1])
                           ELSE @[w]]]
  /\ UNCHANGED << config_vars, dirs, store, running, alive, th, done, delivered, faults,
                  harness_vars, enabled, monitor, observers, oroot, stopping, host, wlog >>

\* the observer thread takes the next event from its queue and dispatches it
Deliver(w, e) ==
  /\ w \notin stopping
  /\ th[w].pc = "idle"
  /\ Taken(w) < Len(fs.inbox[w])
  /\ LET next == fs.inbox[w][Taken(w) + 1]
     IN e.path = next.path /\ e.isdir = next.isdir
  /\ OnDeleted(w, e)

\* init_plugin(config) up to its call of stop_service
InitPlugin(c) ==
  /\ host.pc = "idle" /\ wlog.calls < MaxCalls
  /\ enabled' = c.enabled
  /\ notify' = c.notify
  /\ exclude_keywords' = c.keywords
  /\ monitor' = c.monitor
  /\ strm_path_mappings' = c.mappings
  /\ host' = [pc |-> "stop", op |-> "init", i |-> 1, dirs |-> <<>>]
  /\ wlog' = [wlog EXCEPT !.calls = @ + 1, !.reported = {}, !.surfaced = {}, !.failed = {}]
  /\ UNCHANGED << dirs, store, running, alive, th, done, delivered, faults, harness_vars,
                  observers, oroot, stopping, fs >>

\* stop_service() called by the host
StopService ==
  /\ host.pc = "idle" /\ wlog.calls < MaxCalls
  /\ host' = [pc |-> "stop", op |-> "stop", i |-> 1, dirs |-> <<>>]
  /\ wlog' = [wlog EXCEPT !.calls = @ + 1]
  /\ UNCHANGED << config_vars, dirs, store, running, alive, th, done, delivered, faults,
                  harness_vars, enabled, monitor, observers, oroot, stopping, fs >>

\* observer.stop() in the loop of stop_service: it returns, or it raises and the
\* except clause skips the join; a stop() that raised may or may not have stopped
\* the observer
StopObserver ==
  /\ host.pc = "stop" /\ host.i <= Len(observers)
  /\ LET w == observers[host.i]
     IN \/ /\ stopping' = stopping \cup {w}
           /\ host' = [host EXCEPT !.pc = "join"]
           /\ UNCHANGED faults
        \/ /\ faults < MaxFaults
           /\ faults' = faults + 1
           /\ \E took \in BOOLEAN : stopping' = IF took THEN stopping \cup {w} ELSE stopping
           /\ host' = [host EXCEPT !.i = @ + 1]
  /\ UNCHANGED << config_vars, dirs, store, running, alive, th, done, delivered,
                  harness_vars, enabled, monitor, observers, oroot, wlog, fs >>

\* observer.join() in the loop of stop_service: it returns when the observer
\* thread has finished the event it was dispatching; on an observer that was never
\* started it raises and the except clause goes on
JoinObserver ==
  /\ host.pc = "join"
  /\ LET w == observers[host.i]
     IN /\ w \in running => th[w].pc = "idle"
        /\ running' = running \ {w}
  /\ host' = [host EXCEPT !.pc = "stop", !.i = @ + 1]
  /\ UNCHANGED << config_vars, dirs, store, alive, th, done, delivered, faults,
                  harness_vars, enabled, monitor, observers, oroot, stopping, wlog, fs >>

\* the end of stop_service, `self._observer = []`, and, inside init_plugin, the
\* test of the two flags and the parse of the mapping table
FinishStop ==
  /\ host.pc = "stop" /\ host.i > Len(observers)
  /\ observers' = <<>>
  /\ LET mappings == ParseMappings(strm_path_mappings)
         monitor_dirs == [k \in 1..Len(mappings) |-> mappings[k].key]
         starts == host.op = "init" /\ enabled /\ monitor /\ mappings # <<>>
     IN /\ host' = IF starts THEN [pc |-> "start", op |-> "init", i |-> 1, dirs |-> monitor_dirs]
                   ELSE HostIdle
        /\ wlog' = [wlog EXCEPT !.dropped = @ \cup (Range(observers) \cap wlog.started),
                                !.last = IF starts THEN @ ELSE host.op]
  /\ UNCHANGED << config_vars, dirs, store, running, alive, th, done, delivered, faults,
                  harness_vars, enabled, monitor, oroot, stopping, fs >>

\* one iteration of the start loop of init_plugin
StartRoot ==
  /\ host.pc = "start"
  /\ LET mon_path == host.dirs[host.i]
         last == host.i = Len(host.dirs)
         nexthost == IF last THEN HostIdle ELSE [host EXCEPT !.i = @ + 1]
     IN \/ /\ mon_path \notin ExistingRoots
           /\ host' = nexthost
           /\ wlog' = [wlog EXCEPT !.reported = @ \cup {mon_path},
                                   !.last = IF last THEN "init" ELSE @]
           /\ UNCHANGED << running, alive, faults, observers, oroot, stopping, fs >>
        \/ /\ mon_path \in ExistingRoots
           /\ FreeObservers # {}
           /\ LET w == CHOOSE v \in FreeObservers : \A u \in FreeObservers : v = "w1" \/ u # "w1"
              IN /\ observers' = Append(observers, w)
                 /\ oroot' = [oroot EXCEPT ![w] = mon_path]
                 /\ fs' = [fs EXCEPT !.inbox[w] = <<>>, !.base[w] = DoneBy(w)]
                 /\ \/ /\ running' = running \cup {w}
                       /\ alive' = [alive EXCEPT ![w] = TRUE]
                       /\ stopping' = stopping \ {w}
                       /\ host' = nexthost
                       /\ wlog' = [wlog EXCEPT !.started = @ \cup {w}, !.dropped = @ \ {w},
                                               !.under[w] = strm_path_mappings,
                                               !.last = IF last THEN "init" ELSE @]
                       /\ UNCHANGED faults
                    \/ /\ faults < MaxFaults
                       /\ faults' = faults + 1
                       /\ host' = IF StartFailure.continue THEN nexthost ELSE HostIdle
                       /\ wlog' = [wlog EXCEPT
                            !.started = @ \ {w}, !.dropped = @ \ {w},
                            !.reported = @ \cup {mon_path},
                            !.failed = @ \cup {mon_path},
                            !.surfaced = IF StartFailure.surfaced THEN @ \cup {mon_path} ELSE @,
                            !.last = IF last \/ ~StartFailure.continue THEN "init" ELSE @]
                       /\ UNCHANGED << running, alive, stopping >>
  /\ UNCHANGED << config_vars, dirs, store, th, done, delivered, harness_vars,
                  enabled, monitor >>

\* the plugin as constructed: the class attributes, no observer, no call yet
InitWatch ==
  /\ strm_path_mappings = <<>>
  /\ exclude_keywords = <<>>
  /\ notify = FALSE
  /\ dirs = InitialDirs
  /\ store = InitialStore
  /\ running = {}
  /\ alive = [w \in Watchers |-> TRUE]
  /\ th = [w \in Watchers |-> IdleThread]
  /\ done = <<>>
  /\ delivered = 0
  /\ faults = 0
  /\ query = [path |-> <<>>, keep |-> TRUE]
  /\ answer = [asked |-> FALSE, r |-> NoTarget]
  /\ table = [asked |-> FALSE, r |-> <<>>]
  /\ enabled = FALSE
  /\ monitor = FALSE
  /\ observers = <<>>
  /\ oroot = [w \in Watchers |-> <<>>]
  /\ stopping = {}
  /\ host = HostIdle
  /\ wlog = NoLog
  /\ fs = NoDeletion

NextWatch ==
  \/ \E c \in WatchConfigs : InitPlugin(c)
  \/ StopService
  \/ StopObserver
  \/ JoinObserver
  \/ FinishStop
  \/ StartRoot
  \/ \E e \in WatchEvents : FileDeleted(e)
  \/ \E w \in Watchers :
       \/ \E e \in WatchEvents : Deliver(w, e)
       \/ Exists(w)
       \/ ListFiles(w)
       \/ DeleteFile(w)
       \/ PostMessage(w)

\* the host reloads and stops the plugin while the observers deliver events
SpecWatch == InitWatch /\ [][NextWatch]_vars

\* ------------------------------------------------------------------ C1

\* the rules of a mapping text, one per valid line, in line order
LineRules(text) ==
  LET lines == IF text = <<>> THEN <<>> ELSE Split(text, "\n")
      RuleOf(i) == ParseLine(<<>>, lines[i])
      valid == { i \in 1..Len(lines) : RuleOf(i) # <<>> }
      Nth(k) == CHOOSE i \in valid : Cardinality({ j \in valid : j < i }) = k - 1
  IN [k \in 1..Cardinality(valid) |-> RuleOf(Nth(k))[1]]

\* the first line rule whose sourceRoot prefixes the path, 0 when there is none
FirstLine(rules, path) ==
  IF \E i \in 1..Len(rules) : StartsWith(path, rules[i].key)
  THEN CHOOSE i \in 1..Len(rules) :
         /\ StartsWith(path, rules[i].key)
         /\ \A j \in 1..(i - 1) : ~StartsWith(path, rules[j].key)
  ELSE 0

\* the last line rule with the given sourceRoot
LastLineOf(rules, key) ==
  CHOOSE i \in 1..Len(rules) :
    rules[i].key = key /\ \A j \in (i + 1)..Len(rules) : rules[j].key # key

\* C1 as stated: _get_target_path returns the backend type and the joined target
\* of the first line of the mapping text whose sourceRoot is a literal prefix of
\* the path, and (None, None) only when no line's sourceRoot is a prefix.
C1_FirstLineWins ==
  answer.asked =>
    LET rules == LineRules(strm_path_mappings)
        path == PathStr(query.path)
        i == FirstLine(rules, path)
    IN IF i = 0 THEN ~answer.r.found
       ELSE answer.r = TargetFor(rules[i], path, query.keep)

\* C1 amended: the first line whose sourceRoot prefixes the path selects the
\* sourceRoot; the backend type and targetRoot are those of the last line that
\* has this same sourceRoot; (None, None) only when no sourceRoot is a prefix.
C1_FirstRootLastValue ==
  answer.asked =>
    LET rules == LineRules(strm_path_mappings)
        path == PathStr(query.path)
        i == FirstLine(rules, path)
    IN IF i = 0 THEN ~answer.r.found
       ELSE answer.r = TargetFor(rules[LastLineOf(rules, rules[i].key)], path, query.keep)

\* C1 witness: two different sourceRoots prefix the path, the more specific one
\* on the later line, and the target is under the first line's targetRoot
C1_Witness ==
  /\ answer.asked /\ answer.r.found
  /\ LET rules == LineRules(strm_path_mappings)
         path == PathStr(query.path)
     IN /\ Len(rules) = 2
        /\ StartsWith(path, rules[1].key) /\ StartsWith(path, rules[2].key)
        /\ Len(rules[1].key) < Len(rules[2].key)
        /\ StartsWith(answer.r.path, rules[1].val.path)
        /\ ~StartsWith(answer.r.path, rules[2].val.path)

\* ------------------------------------------------------------------ shared by the properties

\* the events that reached a terminal state
Finished == { done[i] : i \in 1..Len(done) }

\* the events being processed
InFlight == { th[w] : w \in { v \in running : th[v].pc # "idle" } }

\* every event seen so far, finished or not
Seen == { f.ev : f \in Finished } \cup InFlight

\* the calls of one kind an event made, as indexes into its call log
CallsOf(t, op) == { i \in 1..Len(t.calls) : t.calls[i].op = op }

\* the entries an event invoked the backend delete on
DeleteSet(t) == { t.calls[i].entry : i \in CallsOf(t, "delete") }

\* the entries an event invoked the backend delete on, in call order
DeleteSeq(t) ==
  LET IsDelete(c) == c.op = "delete"
      ds == SelectSeq(t.calls, IsDelete)
  IN [i \in 1..Len(ds) |-> ds[i].entry]

\* the event is a pointer (.strm) event that reached its handler
IsPointer(t) == ~t.isdir /\ t.kind = "strm"

\* the event is a companion (.srt/.ass) event that reached its handler
IsCompanion(t) == ~t.isdir /\ t.kind = "subtitle"

\* name is base followed by a video extension, compared case-insensitively
IsVideoOf(base, name) ==
  /\ base # <<>>
  /\ \E ext \in VIDEO_EXTENSIONS :
       /\ Len(name) = Len(base) + Len(ext)
       /\ SubSeq(name, 1, Len(base)) = base
       /\ Lower(SubSeq(name, Len(base) + 1, Len(name))) = ext

\* the file-kind entries of a listing that are videos of the target's basename
VideosOf(listing, target_path) ==
  LET Want(f) == f.type = "file" /\ IsVideoOf(PathName(target_path), f.name)
  IN SelectSeq(listing, Want)

\* ------------------------------------------------------------------ C2

\* C2: on a pointer (.strm) event there is at most one listing, of the parent
\* directory of the resolved target, and the entries the backend delete is
\* invoked on are exactly the file-kind entries of that listing whose name is
\* the target basename followed by a video extension (extension compared
\* case-insensitively); without a listing nothing is deleted.  While the event
\* is in flight the deletes made so far are among those entries.
C2_PointerDeletesExactlyVideos ==
  /\ \A f \in Finished :
       IsPointer(f.ev) =>
         /\ Cardinality(CallsOf(f.ev, "list")) <= 1
         /\ \A i \in CallsOf(f.ev, "list") : f.ev.calls[i].dir = DirItemPath(f.ev.target.path)
         /\ \A e \in Range(f.ev.listing) :
              e.dir = DirItemPath(f.ev.target.path) /\ e.storage = f.ev.target.type
         /\ DeleteSet(f.ev) = Range(VideosOf(f.ev.listing, f.ev.target.path))
         /\ \A e \in DeleteSet(f.ev) : e.type = "file"
  /\ \A t \in InFlight :
       IsPointer(t) => DeleteSet(t) \subseteq Range(VideosOf(t.listing, t.target.path))

\* C2 witness: a finished pointer event whose listing held a directory entry
\* with a video name, a file with another stem and a non-video file, and whose
\* deletes were two videos, one of them with an upper-case extension
C2_Witness ==
  \E f \in Finished :
    /\ IsPointer(f.ev) /\ f.ev.listed
    /\ Cardinality(DeleteSet(f.ev)) = 2
    /\ \E e \in DeleteSet(f.ev) : NameSuffix(e.name) # Lower(NameSuffix(e.name))
    /\ \E e \in Range(f.ev.listing) : e.type = "dir" /\ Lower(NameSuffix(e.name)) \in VIDEO_EXTENSIONS
    /\ \E e \in Range(f.ev.listing) :
         e.type = "file" /\ e \notin DeleteSet(f.ev) /\ NameSuffix(e.name) \in VIDEO_EXTENSIONS
    /\ \E e \in Range(f.ev.listing) :
         e.type = "file" /\ NameStem(e.name) = PathName(f.ev.target.path) /\ e \notin DeleteSet(f.ev)

\* ------------------------------------------------------------------ C3

\* the first file-kind entry of a listing with the given name, as a set
FirstFileNamed(listing, name) ==
  { listing[i] : i \in { k \in 1..Len(listing) :
      /\ listing[k].type = "file" /\ listing[k].name = name
      /\ \A j \in 1..(k - 1) : ~(listing[j].type = "file" /\ listing[j].name = name) } }

\* C3 as stated: on a companion (.srt/.ass) event the backend delete is invoked
\* at most once, and only on the first file-kind entry of the listing whose name
\* equals the deleted file's full filename verbatim.
C3_CompanionDeletesExactName ==
  \A t \in Seen :
    IsCompanion(t) =>
      /\ Cardinality(CallsOf(t, "delete")) <= 1
      /\ DeleteSet(t) \subseteq FirstFileNamed(t.listing, PathName(t.path))

\* ------------------------------------------------------------------ C4

\* the target of the event's path under the rule that resolves it, nothing stripped
UnstrippedTarget(t) ==
  LET rules == LineRules(strm_path_mappings)
      i == FirstLine(rules, t.path)
  IN TargetFor(rules[LastLineOf(rules, rules[i].key)], t.path, TRUE).path

\* C4 as stated: stripping is decided by the event class only: the target of a
\* pointer event is the joined path with its trailing ".strm" (any case) removed,
\* the target of a companion event is the joined path unchanged.
C4_StripByEventClass ==
  \A t \in Seen :
    (t.resolved /\ t.target.found) =>
      LET full == UnstrippedTarget(t) IN
        /\ IsPointer(t) =>
             /\ Len(full) >= 5
             /\ Lower(SubSeq(full, Len(full) - 4, Len(full))) = STRM_EXT
             /\ t.target.path = SubSeq(full, 1, Len(full) - 5)
        /\ IsCompanion(t) => t.target.path = full

\* ------------------------------------------------------------------ C7

\* C7 as stated: when events of the same target race, no event invokes the
\* backend delete on a file that another event has already deleted, and none
\* records a failed delete for such a file.
C7_NoDeleteOfDeletedFile ==
  \A t \in Seen : \A i \in CallsOf(t, "delete") : t.calls[i].present

\* ------------------------------------------------------------------ C10

\* some rule of the mapping table has a sourceRoot that prefixes the path
Covered(path) == FirstLine(LineRules(strm_path_mappings), path) # 0

\* C10 as stated: a pointer or companion event with no covering rule ends Skipped
\* with no backend call and no notification, and an event whose path is covered
\* by some rule of the table is not skipped as unmapped.
C10_SkippedIffNoRule ==
  \A f \in Finished :
    (IsPointer(f.ev) \/ IsCompanion(f.ev)) =>
      /\ ~Covered(f.ev.path) =>
           f.outcome = "Skipped" /\ f.ev.calls = <<>> /\ ~f.ev.notified
      /\ Covered(f.ev.path) => f.outcome # "Skipped"

\* ------------------------------------------------------------------ C5

\* the entries whose backend delete returned True, in call order
SucceededSeq(t) ==
  LET Ok(c) == c.op = "delete" /\ c.res = "true"
      ds == SelectSeq(t.calls, Ok)
  IN [i \in 1..Len(ds) |-> ds[i].entry]

\* C5: a pointer event that got its listing attempts the delete on every matched
\* video, once each and in listing order, whatever the earlier deletes returned
\* or raised; the files recorded as deleted are exactly those whose delete
\* returned True; no exception leaves the batch: the event is abandoned only by
\* a raise outside it, and the watcher thread stays alive.
C5_BatchResilience ==
  /\ \A f \in Finished :
       (IsPointer(f.ev) /\ f.ev.listed) =>
         /\ DeleteSeq(f.ev) = VideosOf(f.ev.listing, f.ev.target.path)
         /\ f.ev.deleted = SucceededSeq(f.ev)
         /\ f.outcome \in {"Completed", "Abandoned"}
         /\ f.outcome = "Abandoned" => f.ev.calls[Len(f.ev.calls)].op = "post"
  /\ \A t \in InFlight : t.deleted = SucceededSeq(t)
  /\ \A w \in Watchers : alive[w]

\* C5 witness: two matched videos, the delete of the first raised, the delete of
\* the second succeeded and is the only one recorded
C5_Witness ==
  \E f \in Finished :
    /\ IsPointer(f.ev) /\ Len(DeleteSeq(f.ev)) = 2
    /\ \E i, j \in CallsOf(f.ev, "delete") :
         i < j /\ f.ev.calls[i].res = "raise" /\ f.ev.calls[j].res = "true"
    /\ f.ev.deleted = << DeleteSeq(f.ev)[2] >>

\* ------------------------------------------------------------------ C6

\* no backend call of the event raised
NoRaise(t) == \A i \in 1..Len(t.calls) : t.calls[i].res # "raise"

\* the event ran to Completed and every delete it made succeeded
CleanRun(f) ==
  /\ f.outcome = "Completed"
  /\ \A i \in CallsOf(f.ev, "delete") : f.ev.calls[i].res = "true"

\* C6: when the same event is processed twice in a row and the first run ended
\* Completed with every delete successful, the second run matches nothing,
\* invokes no backend delete, records no deleted and no failed file, and ends
\* Completed (unless one of its own exists/list calls raises).
C6_SecondRunFindsNothing ==
  \A i \in 1..(Len(done) - 1) :
    LET a == done[i]
        b == done[i + 1]
    IN (a.w = b.w /\ a.ev.path = b.ev.path /\ a.ev.isdir = b.ev.isdir /\ CleanRun(a)) =>
         /\ CallsOf(b.ev, "delete") = {}
         /\ b.ev.matched = <<>> /\ b.ev.deleted = <<>>
         /\ b.outcome \in {"Completed", "Abandoned"}
         /\ NoRaise(b.ev) => b.outcome = "Completed"

\* C6 witness: the first run deleted at least one file, the second run of the
\* same event listed the directory, matched nothing and ended Completed
C6_Witness ==
  \E i \in 1..(Len(done) - 1) :
    /\ done[i].ev.path = done[i + 1].ev.path /\ CleanRun(done[i])
    /\ CallsOf(done[i].ev, "delete") # {}
    /\ done[i + 1].ev.listed /\ done[i + 1].ev.matched = <<>>
    /\ done[i + 1].outcome = "Completed"

\* ------------------------------------------------------------------ C8

\* C8: a raise of the backend exists or list call, or of the notification, ends
\* that event as abandoned, and only such a raise does; a raise of the backend
\* delete does not end it; no call is repeated (one exists, one list, one delete
\* per entry, one notification at most); after a failed exists or listing the
\* event makes no further backend call; no exception reaches the watcher thread,
\* which stays able to take the next event.
C8_FailureContained ==
  /\ \A w \in Watchers : alive[w]
  /\ \A f \in Finished :
       LET t == f.ev IN
         /\ f.outcome \in {"Skipped", "Completed", "Abandoned"}
         /\ Cardinality(CallsOf(t, "exists")) <= 1
         /\ Cardinality(CallsOf(t, "list")) <= 1
         /\ Cardinality(CallsOf(t, "post")) <= 1
         /\ Cardinality(DeleteSet(t)) = Cardinality(CallsOf(t, "delete"))
         /\ f.outcome = "Abandoned" <=>
              \E i \in 1..Len(t.calls) : t.calls[i].res = "raise" /\ t.calls[i].op # "delete"
         /\ \A i \in 1..Len(t.calls) :
              (t.calls[i].res = "raise" /\ t.calls[i].op # "delete") => i = Len(t.calls)
         /\ (\E i \in CallsOf(t, "list") : t.calls[i].res = "raise") => CallsOf(t, "delete") = {}

\* C8 witness: an event of a watcher was abandoned after a raise, and a later
\* event of the same watcher ran to Completed and deleted a file
C8_Witness ==
  \E i, j \in 1..Len(done) :
    /\ i < j /\ done[i].w = done[j].w
    /\ done[i].outcome = "Abandoned"
    /\ done[j].outcome = "Completed" /\ done[j].ev.deleted # <<>>

\* ------------------------------------------------------------------ C9

\* the path contains a non-empty line of the exclusion keyword text
KeywordHit(path) ==
  \E kw \in Range(Split(exclude_keywords, "\n")) : kw # <<>> /\ Contains(path, kw)

\* C9: an event whose path contains a non-empty exclusion keyword as a literal
\* substring ends Skipped, with no mapping resolution, no backend call and no
\* notification; no such event is ever in the pipeline.
C9_ExcludedIsSkipped ==
  /\ \A f \in Finished :
       KeywordHit(f.ev.path) =>
         /\ f.outcome = "Skipped"
         /\ ~f.ev.resolved /\ f.ev.calls = <<>> /\ f.ev.deleted = <<>> /\ ~f.ev.notified
  /\ \A t \in InFlight : ~KeywordHit(t.path)

\* C9 witness: a .strm file event under a mapped root, skipped for its keyword
C9_Witness ==
  \E f \in Finished :
    /\ KeywordHit(f.ev.path) /\ ~f.ev.isdir
    /\ Lower(PathSuffix(f.ev.path)) = STRM_EXT
    /\ Covered(f.ev.path)
    /\ f.outcome = "Skipped"

\* ------------------------------------------------------------------ C11

\* the target paths a notification text lists, in order
ListedPaths(t) == [i \in 1..Len(t.text.lines) |-> t.text.lines[i].path]

\* the paths of the entries whose backend delete returned success, in call order
SucceededPaths(t) ==
  LET ok == SucceededSeq(t)
  IN [i \in 1..Len(ok) |-> ok[i].dir \o ok[i].name]

\* C11: every event calls post_message at most once, and it calls it if and only
\* if notify is enabled and at least one backend delete of the event returned
\* success; the call comes after the last delete, and its text carries the
\* triggering path and exactly the paths whose delete returned success, with the
\* backend type of the event's target.
C11_NotificationGating ==
  /\ \A f \in Finished :
       LET t == f.ev
           posts == CallsOf(t, "post")
       IN /\ Cardinality(posts) <= 1
          /\ (posts # {}) <=> (notify /\ SucceededSeq(t) # <<>>)
          /\ posts # {} =>
               /\ posts = {Len(t.calls)}
               /\ t.queue = <<>>
               /\ t.text.trigger = t.path
               /\ ListedPaths(t) = SucceededPaths(t)
               /\ \A i \in 1..Len(t.text.lines) : t.text.lines[i].storage = t.target.type
          /\ t.notified <=> (posts # {} /\ t.calls[Len(t.calls)].res = "ok")
  /\ \A t \in InFlight :
       /\ CallsOf(t, "post") = {} /\ ~t.notified
       /\ t.pc = "notify" => notify /\ t.queue = <<>> /\ SucceededSeq(t) # <<>>

\* C11 witness: a notified event with two deletes, one that did not succeed and
\* one that did, and a text that lists only the latter
C11_Witness ==
  \E f \in Finished :
    /\ f.ev.notified /\ Len(DeleteSeq(f.ev)) = 2
    /\ Len(f.ev.text.lines) = 1
    /\ \E i \in CallsOf(f.ev, "delete") : f.ev.calls[i].res # "true"

\* ------------------------------------------------------------------ C12

\* C12 as stated: whenever stop_service has returned, on its own or inside
\* init_plugin, every observer it dropped from the registry that had been started
\* has been stopped and joined (its thread has ended), also when a stop() raised;
\* and on return from stop_service the registry is empty.
C12_ShutdownLeavesNoThread ==
  /\ \A w \in wlog.dropped : w \notin running
  /\ host.pc = "idle" /\ wlog.last = "stop" => observers = <<>>

\* ------------------------------------------------------------------ C13

\* C13 as stated: after stop_service has returned, no observer it stopped has an
\* event in its pipeline, so none accepts an event or issues a backend call any
\* more.
C13_NoPipelineAfterStop ==
  \A w \in wlog.dropped : th[w].pc = "idle"

\* ------------------------------------------------------------------ C14

\* the distinct sourceRoots of the mapping table
TableRoots == { r.key : r \in Range(LineRules(strm_path_mappings)) }

\* an observer of the registry is running on the root and accepts its events
Watched(root) ==
  \E w \in Range(observers) : w \in running /\ w \notin stopping /\ alive[w] /\ oroot[w] = root

\* init_plugin has returned after going through its start loop
Reloaded == host.pc = "idle" /\ wlog.last = "init" /\ enabled /\ monitor

\* C14: when init_plugin returns, a root of the table that is missing on disk or
\* whose observer raised on schedule/start is watched by no observer of the
\* registry and has been reported (a start failure also on systemmessage), and
\* every other root of the table is watched by an observer of the registry,
\* wherever the failing root stands in the table.
C14_StartFailureIsolated ==
  Reloaded =>
    \A root \in TableRoots :
      IF root \in ExistingRoots /\ root \notin wlog.failed
      THEN Watched(root)
      ELSE /\ ~Watched(root)
           /\ root \in wlog.reported
           /\ root \in wlog.failed => root \in wlog.surfaced

\* C14 witness: the observer of the first root of the table raised on start and
\* the second root of the table is watched
C14_Witness ==
  /\ Reloaded
  /\ LET rules == LineRules(strm_path_mappings)
     IN /\ Len(rules) = 2
        /\ rules[1].key \in wlog.failed /\ ~Watched(rules[1].key)
        /\ Watched(rules[2].key)

\* ------------------------------------------------------------------ C15

\* the colon-delimited fields of a stripped line
Fields(line) == Split(line, ":")

RECURSIVE RulesOfLines(_, _)
\* the table the statement describes: lines taken in input order; a line with no
\* ':', with an empty sourceRoot or with more than three fields contributes
\* nothing; two fields give the backend type 'local', three fields the second
\* field; a repeated sourceRoot is entered as a dict entry is
RulesOfLines(rules, lines) ==
  IF lines = <<>> THEN rules
  ELSE LET f == Fields(Strip(Head(lines)))
           root == Strip(f[1])
           rule == IF Len(f) = 2
                   THEN [type |-> LOCAL_TYPE, path |-> Strip(f[2])]
                   ELSE [type |-> Strip(f[2]), path |-> Strip(f[3])]
       IN RulesOfLines(IF Len(f) \in {2, 3} /\ root # <<>> THEN DictSet(rules, root, rule)
                       ELSE rules,
                       Tail(lines))

\* C15 as stated: _parse_strm_path_mappings skips a line with no ':' or an empty
\* sourceRoot, gives a two-field line the backend type 'local' and a three-field
\* line its second field, skips a line of more than three colon-delimited fields,
\* and parses the remaining lines in every case, the rules kept in input order.
C15_PerLineParsing ==
  table.asked =>
    table.r = RulesOfLines(<<>>, IF strm_path_mappings = <<>> THEN <<>>
                                 ELSE Split(strm_path_mappings, "\n"))

\* ------------------------------------------------------------------ C16

\* the extension of a path as written: from the last dot of its last component
RawExt(path) ==
  LET dot == RFindChar(path, ".")
      slash == RFindChar(path, "/")
  IN IF dot > slash + 1 /\ dot < Len(path) THEN SubSeq(path, dot, Len(path)) ELSE <<>>

\* the event is a file event that no filter of on_deleted stops
PassesFilters(t) == ~t.isdir /\ RawExt(t.path) \notin TEMP_SUFFIXES /\ ~KeywordHit(t.path)

\* the event went through the pointer handler only: resolution asked to strip
\* the suffix, video matching, "video" lines in the notification
PointerHandled(t) ==
  /\ t.kind = "strm" /\ t.resolved
  /\ t.target = GetTargetPath(strm_path_mappings, t.path, FALSE)
  /\ t.listed => t.matched = VideosOf(t.listing, t.target.path)
  /\ \A i \in 1..Len(t.text.lines) : t.text.lines[i].label = "video"

\* the event went through the companion handler only: resolution asked to keep
\* the suffix, at most one match, of the exact name, "subtitle" lines
CompanionHandled(t) ==
  /\ t.kind = "subtitle" /\ t.resolved
  /\ t.target = GetTargetPath(strm_path_mappings, t.path, TRUE)
  /\ t.listed => Range(t.matched) = FirstFileNamed(t.listing, PathName(t.target.path))
  /\ \A i \in 1..Len(t.text.lines) : t.text.lines[i].label = "subtitle"

\* C16: a directory event, and a file event whose extension, lowered, is neither
\* '.strm' nor '.srt'/'.ass', ends Skipped with no resolution and no backend
\* call; a '.strm' file event that passes the filters goes through the pointer
\* handler only, a '.srt'/'.ass' file event through the companion handler only;
\* only such events are ever in a handler.
C16_Classification ==
  /\ \A f \in Finished :
       LET t == f.ev
           ext == Lower(RawExt(t.path))
       IN /\ (t.isdir \/ ext \notin {STRM_EXT} \cup SUBTITLE_EXTENSIONS) =>
               f.outcome = "Skipped" /\ ~t.resolved /\ t.calls = <<>> /\ ~t.notified
          /\ (PassesFilters(t) /\ ext = STRM_EXT) => PointerHandled(t)
          /\ (PassesFilters(t) /\ ext \in SUBTITLE_EXTENSIONS) => CompanionHandled(t)
  /\ \A t \in InFlight :
       /\ PassesFilters(t)
       /\ IF Lower(RawExt(t.path)) = STRM_EXT THEN PointerHandled(t)
          ELSE Lower(RawExt(t.path)) \in SUBTITLE_EXTENSIONS /\ CompanionHandled(t)

\* C16 witness: an upper-case '.STRM' event deleted a video through the pointer
\* handler, and a directory event named like a pointer was skipped
C16_Witness ==
  /\ \E f \in Finished :
       /\ RawExt(f.ev.path) = <<".","S","T","R","M">> /\ PointerHandled(f.ev)
       /\ f.ev.deleted # <<>>
  /\ \E f \in Finished :
       f.ev.isdir /\ Lower(RawExt(f.ev.path)) = STRM_EXT /\ f.outcome = "Skipped"

\* ------------------------------------------------------------------ C17

\* the backend calls of an event are: one exists; then, only when it returned
\* true, one list; then deletes only, each on an entry of that listing; then at
\* most the notification
OrderedCalls(t) ==
  LET n == Len(t.calls)
      lists == CallsOf(t, "list")
      dels == CallsOf(t, "delete")
  IN /\ n >= 1 => t.calls[1].op = "exists"
     /\ CallsOf(t, "exists") \subseteq {1}
     /\ lists \subseteq {2}
     /\ lists # {} => t.calls[1].res = "true"
     /\ dels # {} => lists # {} /\ t.listed
     /\ \A i \in dels : i > 2 /\ t.calls[i].entry \in Range(t.listing)
     /\ lists # {} /\ t.listed =>
          \A e \in Range(t.listing) : e.storage = t.target.type /\ e.dir = t.calls[1].dir

\* C17: within one event the existence check precedes the listing, there is at
\* most one listing and it precedes every delete, every delete is on an entry of
\* the event's own listing, and an event whose existence check returned false
\* ends Completed with an empty match, that one backend call and no notification.
C17_CallOrdering ==
  /\ \A t \in Seen : OrderedCalls(t)
  /\ \A f \in Finished :
       (f.ev.calls # <<>> /\ f.ev.calls[1].res = "false") =>
         /\ f.outcome = "Completed"
         /\ Len(f.ev.calls) = 1
         /\ ~f.ev.listed /\ f.ev.matched = <<>> /\ f.ev.deleted = <<>> /\ ~f.ev.notified
  /\ \A w \in Watchers : alive[w]

\* C17 witness: one event went through exists, list and two deletes, and another
\* ended Completed on an absent target directory
C17_Witness ==
  /\ \E f \in Finished :
       /\ Len(f.ev.calls) >= 4
       /\ f.ev.calls[3].op = "delete" /\ f.ev.calls[4].op = "delete"
  /\ \E f \in Finished :
       f.outcome = "Completed" /\ Len(f.ev.calls) = 1 /\ f.ev.calls[1].res = "false"

\* ------------------------------------------------------------------ C18

\* the observer threads that have not ended
LiveObservers == { w \in Watchers : w \in running /\ (w \notin stopping \/ th[w].pc # "idle") }

\* the roots the statement expects to be watched after the last init_plugin
ExpectedRoots ==
  IF enabled /\ monitor
  THEN { root \in TableRoots : root \in ExistingRoots /\ root \notin wlog.failed }
  ELSE {}

\* C18 as stated: when an init_plugin call has returned, the running watches are
\* exactly one per distinct sourceRoot of the current table that exists on disk
\* and attached without error when both flags are true, and none otherwise; no
\* watch of an earlier call is still running.
C18_ReloadReplacesWatches ==
  host.pc = "idle" /\ wlog.last = "init" =>
    /\ { oroot[w] : w \in LiveObservers } = ExpectedRoots
    /\ Cardinality(LiveObservers) = Cardinality(ExpectedRoots)
    /\ LiveObservers \subseteq Range(observers)

\* ------------------------------------------------------------------ C19

\* the position of a handler, in the order the code goes through them
Rank(pc) ==
  IF pc = "exists" THEN 1 ELSE IF pc = "list" THEN 2 ELSE IF pc = "delete" THEN 3 ELSE 4

\* a step of a watcher with an event in progress either ends the event or goes on
\* with the same event, one more backend call made, no position revisited and,
\* in the delete loop, one match fewer to go
Progress(w) ==
  th[w].pc # "idle" /\ th'[w] # th[w] =>
    \/ th'[w].pc = "idle" /\ Len(done') = Len(done) + 1 /\ done'[Len(done')].w = w
    \/ /\ th'[w].path = th[w].path /\ th'[w].kind = th[w].kind
       /\ Len(th'[w].calls) = Len(th[w].calls) + 1
       /\ Rank(th'[w].pc) >= Rank(th[w].pc)
       /\ th'[w].pc = th[w].pc => th[w].pc = "delete" /\ Len(th'[w].queue) < Len(th[w].queue)
       /\ done' = done

\* C19: every delivered event reaches a terminal state, and exactly one: it is
\* recorded once, as Skipped, as Completed, or as ended by a raise that the
\* handler caught; no step is retried and no position revisited; a watcher takes
\* its next event only when the previous one is terminal.
C19_EveryEventTerminates ==
  /\ \A w \in Watchers : (th[w].pc # "idle") ~> (th[w].pc = "idle")
  /\ [](Len(done) + Cardinality({ w \in running : th[w].pc # "idle" }) = delivered)
  /\ [](\A f \in Finished : f.outcome \in {"Skipped", "Completed", "Abandoned"})
  /\ [](\A w \in Watchers : alive[w])
  /\ [][\A w \in Watchers : Progress(w)]_vars

\* C19 witness: both delivered events are terminal, one Skipped and one Completed
\* after two deletes and a notification, and the watcher is idle
C19_Witness ==
  /\ delivered = 2 /\ Len(done) = 2 /\ \A w \in Watchers : th[w].pc = "idle"
  /\ \E f \in Finished : f.outcome = "Skipped"
  /\ \E f \in Finished :
       f.outcome = "Completed" /\ Len(DeleteSeq(f.ev)) = 2 /\ f.ev.notified

\* ------------------------------------------------------------------ C20

\* no sourceRoot of the table is equal to, or an ancestor directory of, the
\* sourceRoot of another line
NoNestedRoots ==
  LET rules == LineRules(strm_path_mappings)
  IN \A i, j \in 1..Len(rules) :
       i # j => rules[i].key # rules[j].key /\ ~UnderRoot(rules[j].key, rules[i].key)

NthDoneBy(w, n) ==
  done[CHOOSE i \in 1..Len(done) :
         done[i].w = w /\ Cardinality({ j \in 1..i : done[j].w = w }) = n]

\* the k-th event of its queue that observer w took: in progress, or finished
EventTaken(w, k) ==
  IF k = Taken(w) /\ th[w].pc # "idle" THEN th[w] ELSE NthDoneBy(w, fs.base[w] + k).ev

\* the observers that started a handler for local deletion id
PipelinesOf(id) ==
  { w \in Watchers :
      \E k \in 1..Taken(w) :
        fs.inbox[w][k].id = id /\ EventTaken(w, k).kind \in {"strm", "subtitle"} }

\* C21 as stated: one local deletion of a pointer or companion file starts the
\* resolve/match/delete pipeline in at most one observer, whatever the mapping
\* table, nested sourceRoots included.
C21_OnePipelinePerDeletion ==
  \A id \in 1..fs.n : Cardinality(PipelinesOf(id)) <= 1


\* ------------------------------------------------------------------ C22

\* the configurations the plugin can hold: the class attributes before the first
\* init_plugin call, and the configurations init_plugin is called with
Configurations ==
  { [keywords |-> <<>>, mappings |-> <<>>, notify |-> "False"] }
  \cup { [keywords |-> c.keywords, mappings |-> c.mappings, notify |-> FlagRead(c.notify)] :
          c \in WatchConfigs }

\* the keywords, the table and the flag an event's pipeline read are those of one
\* configuration
ReadOneConfiguration(t) ==
  (t.resolved /\ t.read.notify # "unread") => t.read \in Configurations

\* an event that reached a delete call was resolved with the table of the
\* configuration its watch was started under
ResolvedUnderOwnTable(t) ==
  (t.resolved /\ CallsOf(t, "delete") # {}) => t.read.mappings = t.under

\* the first half of C22: what each pipeline read is one configuration
C22_ReadsAgree == \A t \in Seen : ReadOneConfiguration(t)

\* the second half of C22: no event of an old watch is resolved and deleted
\* against a later table
C22_OwnTable == \A t \in Seen : ResolvedUnderOwnTable(t)

\* C22 as stated: every event is processed against one configuration, also when
\* init_plugin runs while a watch of the previous configuration is processing it:
\* the exclusion keywords, the mapping table and the notify flag its pipeline
\* read belong to the same configuration, and an event delivered by a watch
\* started under one configuration is never resolved and deleted against the
\* mapping table of a later one
C22_OneConfigurationPerEvent == C22_ReadsAgree /\ C22_OwnTable

====================================================================
